---------------------------- MODULE Spec2Model ----------------------------
(***************************************************************************)
(* UV unwrapping pipeline of Mixar-AI/sde-assignment-2025 (part1_cpp):     *)
(* build_topology -> detect_seams -> extract_islands -> per-island LSCM    *)
(* -> pack_uv_islands -> compute_quality_metrics, as run by unwrap_mesh.   *)
(*                                                                         *)
(* Arrays are functions over 0..n-1, as in the C code.  Floating point     *)
(* coordinates are fixed-point integers: the integer Unit stands for 1.0,  *)
(* and a float division is an integer division of the scaled operands.     *)
(***************************************************************************)
EXTENDS Integers, Sequences, FiniteSets, TLC

(***************************************************************************)
(* Bounds of the model                                                     *)
(***************************************************************************)
MaxV == 5        \* most vertices of an enumerated mesh
MaxF == 3        \* most triangles of an enumerated mesh (topology runs)
MaxPF == 2       \* most triangles of an enumerated mesh (full pipeline runs)
Unit == 100      \* fixed-point representation of 1.0
MaxFaceLines == 2 \* most face lines of an enumerated OBJ file
GridSide == 8     \* pixels per side of the coverage grid (1024 in the specification)

(***************************************************************************)
(* Small helpers                                                           *)
(***************************************************************************)
Min2(a, b) == IF a < b THEN a ELSE b
Max2(a, b) == IF a > b THEN a ELSE b
SetMin(S) == CHOOSE x \in S : \A y \in S : x <= y
SetMax(S) == CHOOSE x \in S : \A y \in S : x >= y
Range(f) == {f[i] : i \in DOMAIN f}
EmptyArr == [i \in {} |-> 0]

(***************************************************************************)
(* Input meshes.  A triangle is a triple of vertex indices; a mesh obeys   *)
(* the Mesh invariants: V >= 3, F >= 1, indices in [0,V), no repeated      *)
(* index inside a triangle.                                                *)
(***************************************************************************)
TriSet(V) == {t \in (0..V-1) \X (0..V-1) \X (0..V-1) : t[1] < t[2] /\ t[2] < t[3]}

\* Face 0 is where both searches start; it is taken on the lowest or on the
\* highest vertex labels, every other face is any triangle.
FirstTriangles(V) == {<<0, 1, 2>>, <<V - 3, V - 2, V - 1>>}

TriArray(F, t0, rest) == [f \in 0..F-1 |-> IF f = 0 THEN t0 ELSE rest[f]]

TriArrays(V, maxF) ==
    UNION {{TriArray(F, t0, rest) :
                t0 \in FirstTriangles(V), rest \in [1..F-1 -> TriSet(V)]} :
           F \in 1..maxF}

\* Vertex v at the cube corner whose coordinates are the bits of v.
LayoutCorners(V) == [v \in 0..V-1 |->
    <<(v % 2) * Unit, ((v \div 2) % 2) * Unit, ((v \div 4) % 2) * Unit>>]

\* All vertices on the x axis at x = 0, 1, 2, ...: every triangle is degenerate.
LayoutLine(V) == [v \in 0..V-1 |-> <<v * Unit, 0, 0>>]

\* Unit cube, 8 vertices at {0,1}^3, each square face split along a diagonal.
CubeTriangles ==
    [f \in 0..11 |->
        CASE f = 0 -> <<0, 1, 3>>  [] f = 1 -> <<0, 3, 2>>
          [] f = 2 -> <<4, 5, 7>>  [] f = 3 -> <<4, 7, 6>>
          [] f = 4 -> <<0, 1, 5>>  [] f = 5 -> <<0, 5, 4>>
          [] f = 6 -> <<2, 3, 7>>  [] f = 7 -> <<2, 7, 6>>
          [] f = 8 -> <<0, 2, 6>>  [] f = 9 -> <<0, 6, 4>>
          [] f = 10 -> <<1, 3, 7>> [] OTHER -> <<1, 7, 5>>]

MakeMesh(V, tris, pos) ==
    [num_vertices |-> V, num_triangles |-> Cardinality(DOMAIN tris),
     triangles |-> tris, vertices |-> pos]

CubeMesh == MakeMesh(8, CubeTriangles, LayoutCorners(8))

\* Two tetrahedra without a common vertex: a closed surface of two components.
TwoTetrahedraTriangles ==
    [f \in 0..7 |->
        CASE f = 0 -> <<0, 1, 2>>  [] f = 1 -> <<0, 3, 1>>
          [] f = 2 -> <<0, 2, 3>>  [] f = 3 -> <<1, 3, 2>>
          [] f = 4 -> <<4, 5, 6>>  [] f = 5 -> <<4, 7, 5>>
          [] f = 6 -> <<4, 6, 7>>  [] OTHER -> <<5, 7, 6>>]

TwoTetrahedraMesh == MakeMesh(8, TwoTetrahedraTriangles, LayoutCorners(8))

MeshesOver(V, maxF, pos) == {MakeMesh(V, tris, pos) : tris \in TriArrays(V, maxF)}

(***************************************************************************)
(* State                                                                   *)
(***************************************************************************)
VARIABLES
    mesh,             \* input Mesh: num_vertices, num_triangles, triangles, vertices
    params,           \* UnwrapParams: min_island_faces, pack_islands, island_margin
    pc,               \* position of unwrap_mesh
    topo,             \* TopologyInfo: num_edges, edges, edge_faces
    seams,            \* detect_seams: seam_edges, num_seams, tree_edges, visited
    face_island_ids,  \* extract_islands: island id per face
    num_islands,      \* extract_islands: number of islands
    island_id,        \* loop counter of STEP 4 of unwrap_mesh
    uvs,              \* result->uvs: <<u, v>> per vertex
    result,           \* *result_out: the UnwrapResult handed to the caller
    null_args,        \* the arguments of unwrap_mesh that are NULL
    processed,        \* stdout of STEP 4: <<island id, outcome>> per loop round
    obj,              \* load_obj: the file, the read position and the vectors
    running,          \* the call of unwrap_mesh whose thread is scheduled (1 or 2)
    parked,           \* the locals and heap objects of the call that is not scheduled
    stdio,            \* writes of unwrap_mesh calls to stdout and stderr, the streams all calls share
    lscm_call         \* boundary, pins and matrix of the last lscm_parameterize call past n < 3

vars == <<mesh, params, pc, topo, seams, face_island_ids, num_islands,
          island_id, uvs, result, null_args, processed, obj, running, parked, stdio,
          lscm_call>>

(***************************************************************************)
(* topology.cpp                                                            *)
(***************************************************************************)
\* Mutant: the end points are stored in the order given.
EdgeAsGiven(a, b) == <<a, b>>

\* struct Edge: the smaller vertex first.
Edge(a, b) == IF a < b THEN <<a, b>> ELSE <<b, a>>

\* Edge::operator<
EdgeLess(e1, e2) == IF e1[1] # e2[1] THEN e1[1] < e2[1] ELSE e1[2] < e2[2]

\* The three edges of a triangle, in the order build_topology visits them.
TriEdges(t) == <<Edge(t[1], t[2]), Edge(t[2], t[3]), Edge(t[3], t[1])>>

\* Mutant: the second adjacent face is never recorded.
RecordFaceFirstOnly(info, tri) ==
    IF info[1] = -1 THEN <<tri, info[2]>> ELSE info

\* EdgeInfo update: first face to face0, second to face1, later ones ignored.
RecordFace(info, tri) ==
    IF info[1] = -1 THEN <<tri, info[2]>>
    ELSE IF info[2] = -1 THEN <<info[1], tri>>
    ELSE info

\* edge_map[e] for one edge of triangle tri (operator[] default-constructs).
AddEdge(m, e, tri) ==
    LET info == IF e \in DOMAIN m THEN m[e] ELSE <<-1, -1>>
    IN  (e :> RecordFace(info, tri)) @@ m

\* edge_map after the edge visits lo..hi-1 (visit k is side k % 3 of triangle
\* k \div 3), from the map em.  The range is walked in two halves; the test
\* on the map of the first half (never empty after a visit) has it evaluated
\* before the second half is entered.
RECURSIVE EdgeMap(_, _, _, _)
EdgeMap(tris, lo, hi, em) ==
    IF hi <= lo THEN em
    ELSE IF hi = lo + 1
    THEN AddEdge(em, TriEdges(tris[lo \div 3])[(lo % 3) + 1], lo \div 3)
    ELSE LET mid == (lo + hi) \div 2
             first == EdgeMap(tris, lo, mid, em)
         IN  IF DOMAIN first # {} THEN EdgeMap(tris, mid, hi, first) ELSE first

\* Arrays filled from the map in ascending key order.
build_topology(m) ==
    LET em == EdgeMap(m.triangles, 0, 3 * m.num_triangles, [x \in {} |-> <<-1, -1>>])
        E == Cardinality(DOMAIN em)
        rank(e) == Cardinality({x \in DOMAIN em : EdgeLess(x, e)})
        at(i) == CHOOSE e \in DOMAIN em : rank(e) = i
    IN  [num_edges |-> E,
         edges |-> [i \in 0..E-1 |-> at(i)],
         edge_faces |-> [i \in 0..E-1 |-> em[at(i)]]]

\* EdgeInfo update of the reference example and of the second topology.cpp:
\* the first face to face0, every later face to face1.
RecordFaceExample(info, tri) ==
    IF info[1] = -1 THEN <<tri, info[2]>> ELSE <<info[1], tri>>

AddEdgeExample(m, e, tri) ==
    LET info == IF e \in DOMAIN m THEN m[e] ELSE <<-1, -1>>
    IN  (e :> RecordFaceExample(info, tri)) @@ m

RECURSIVE EdgeMapExample(_, _, _, _)
EdgeMapExample(tris, lo, hi, em) ==
    IF hi <= lo THEN em
    ELSE IF hi = lo + 1
    THEN AddEdgeExample(em, TriEdges(tris[lo \div 3])[(lo % 3) + 1], lo \div 3)
    ELSE LET mid == (lo + hi) \div 2
             first == EdgeMapExample(tris, lo, mid, em)
         IN  IF DOMAIN first # {} THEN EdgeMapExample(tris, mid, hi, first) ELSE first

\* build_topology of the reference example and of the second topology.cpp.
build_topology_example(m) ==
    LET em == EdgeMapExample(m.triangles, 0, 3 * m.num_triangles, [x \in {} |-> <<-1, -1>>])
        E == Cardinality(DOMAIN em)
        rank(e) == Cardinality({x \in DOMAIN em : EdgeLess(x, e)})
        at(i) == CHOOSE e \in DOMAIN em : rank(e) = i
    IN  [num_edges |-> E,
         edges |-> [i \in 0..E-1 |-> at(i)],
         edge_faces |-> [i \in 0..E-1 |-> em[at(i)]]]

\* The repository holds three definitions of build_topology; the library
\* links one of them.
TopologyBuilds(m) == {build_topology(m), build_topology_example(m)}

\* Mutant: the Euler characteristic is returned.
validate_topology_euler(m, tp) ==
    [euler |-> m.num_vertices - tp.num_edges + m.num_triangles,
     ret |-> m.num_vertices - tp.num_edges + m.num_triangles]

\* validate_topology: prints V - E + F, warns when it is not 2, returns 1.
validate_topology(m, tp) ==
    [euler |-> m.num_vertices - tp.num_edges + m.num_triangles, ret |-> 1]

NoTopo == [num_edges |-> 0, edges |-> EmptyArr, edge_faces |-> EmptyArr]
\* *result_out before unwrap_mesh assigns it.
NoResult == [written |-> FALSE]

\* No second call of unwrap_mesh is in progress.
NoCall == [pc |-> "none"]

\* No call of lscm_parameterize has got past n < 3 yet.
NoLscm == [pin1 |-> -1]

NoSeams == [seam_edges |-> EmptyArr, num_seams |-> 0, tree_edges |-> {},
            visited |-> {}, order |-> <<>>]

(***************************************************************************)
(* seam_detection.cpp                                                      *)
(***************************************************************************)
\* An array holding the elements of a set of integers in ascending order
\* (iteration of a std::set<int>).
SortedArr(S) ==
    [i \in 0..Cardinality(S)-1 |-> CHOOSE x \in S : Cardinality({y \in S : y < x}) = i]

\* Interior edge: both adjacent faces are set.
IsInterior(tp, e) == tp.edge_faces[e][1] >= 0 /\ tp.edge_faces[e][2] >= 0

\* Mutant: only face0's list receives the edge.
RECURSIVE SeamAdjacencyOneWay(_, _, _)
SeamAdjacencyOneWay(tp, f, k) ==
    IF k = 0 THEN <<>>
    ELSE LET e == k - 1
             f0 == tp.edge_faces[e][1]
             f1 == tp.edge_faces[e][2]
             prev == SeamAdjacencyOneWay(tp, f, k - 1)
         IN  IF f0 >= 0 /\ f1 >= 0
             THEN prev \o (IF f0 = f THEN <<<<f1, e>>>> ELSE <<>>)
             ELSE prev

\* face_adjacency[f] after edges 0..k-1: (neighbor_face, edge_index) pairs in
\* the order the edge loop pushes them.
RECURSIVE SeamAdjacency(_, _, _)
SeamAdjacency(tp, f, k) ==
    IF k = 0 THEN <<>>
    ELSE LET e == k - 1
             f0 == tp.edge_faces[e][1]
             f1 == tp.edge_faces[e][2]
             prev == SeamAdjacency(tp, f, k - 1)
         IN  IF f0 >= 0 /\ f1 >= 0
             THEN prev \o (IF f0 = f THEN <<<<f1, e>>>> ELSE <<>>)
                       \o (IF f1 = f THEN <<<<f0, e>>>> ELSE <<>>)
             ELSE prev

\* Mutant: the edge to a newly visited face is not recorded as a tree edge.
RECURSIVE VisitNeighborsNoTree(_, _, _)
VisitNeighborsNoTree(adj, i, st) ==
    IF i > Len(adj) THEN st
    ELSE LET neighbor_face == adj[i][1]
         IN  IF neighbor_face \notin st.visited
             THEN VisitNeighborsNoTree(adj, i + 1,
                    [st EXCEPT !.queue = Append(st.queue, neighbor_face),
                               !.visited = st.visited \cup {neighbor_face}])
             ELSE VisitNeighborsNoTree(adj, i + 1, st)

\* The for loop over face_adjacency[face], from entry i on.
RECURSIVE VisitNeighbors(_, _, _)
VisitNeighbors(adj, i, st) ==
    IF i > Len(adj) THEN st
    ELSE LET neighbor_face == adj[i][1]
             edge_idx == adj[i][2]
         IN  IF neighbor_face \notin st.visited
             THEN VisitNeighbors(adj, i + 1,
                    [queue |-> Append(st.queue, neighbor_face),
                     visited |-> st.visited \cup {neighbor_face},
                     tree |-> st.tree \cup {edge_idx},
                     order |-> Append(st.order, <<neighbor_face, edge_idx>>)])
             ELSE VisitNeighbors(adj, i + 1, st)

\* The while loop of STEP 2: FIFO queue, one dequeue per round.
RECURSIVE SeamBFS(_, _)
SeamBFS(tp, st) ==
    IF st.queue = <<>> THEN st
    ELSE LET face == Head(st.queue)
         IN  SeamBFS(tp, VisitNeighbors(SeamAdjacency(tp, face, tp.num_edges), 1,
                                        [st EXCEPT !.queue = Tail(st.queue)]))

\* Mutant: boundary edges are not filtered out of the candidates.
SeamCandidatesAnyEdge(tp, tree) == {e \in 0..tp.num_edges-1 : e \notin tree}

\* Mutant: the candidate loop stops one edge early.
SeamCandidatesShort(tp, tree) ==
    {e \in 0..tp.num_edges-2 : IsInterior(tp, e) /\ e \notin tree}

\* STEP 3: interior edges that are not tree edges.
SeamCandidates(tp, tree) ==
    {e \in 0..tp.num_edges-1 : IsInterior(tp, e) /\ e \notin tree}

\* detect_seams: one BFS from face 0, then the candidates as an array.
detect_seams(m, tp) ==
    LET st == SeamBFS(tp, [queue |-> <<0>>, visited |-> {0}, tree |-> {}, order |-> <<>>])
        seam_candidates == SeamCandidates(tp, st.tree)
    IN  [seam_edges |-> SortedArr(seam_candidates),
         num_seams |-> Cardinality(seam_candidates),
         tree_edges |-> st.tree,
         visited |-> st.visited,
         order |-> st.order]

(***************************************************************************)
(* unwrap.cpp: extract_islands                                             *)
(***************************************************************************)
\* Mutant: seam edges are not skipped.
RECURSIVE IslandAdjacencyWithSeams(_, _, _, _)
IslandAdjacencyWithSeams(tp, seam_set, f, k) ==
    IF k = 0 THEN <<>>
    ELSE LET e == k - 1
             f0 == tp.edge_faces[e][1]
             f1 == tp.edge_faces[e][2]
             prev == IslandAdjacencyWithSeams(tp, seam_set, f, k - 1)
         IN  IF f0 >= 0 /\ f1 >= 0
             THEN prev \o (IF f0 = f THEN <<f1>> ELSE <<>>)
                       \o (IF f1 = f THEN <<f0>> ELSE <<>>)
             ELSE prev

\* face_adjacency[f] after edges 0..k-1, through non-seam interior edges only.
RECURSIVE IslandAdjacency(_, _, _, _)
IslandAdjacency(tp, seam_set, f, k) ==
    IF k = 0 THEN <<>>
    ELSE LET e == k - 1
             f0 == tp.edge_faces[e][1]
             f1 == tp.edge_faces[e][2]
             prev == IslandAdjacency(tp, seam_set, f, k - 1)
         IN  IF e \notin seam_set /\ f0 >= 0 /\ f1 >= 0
             THEN prev \o (IF f0 = f THEN <<f1>> ELSE <<>>)
                       \o (IF f1 = f THEN <<f0>> ELSE <<>>)
             ELSE prev

\* Mutant: the neighbor loop body is missing, no neighbor joins the island.
MarkNeighborsSkip(adj, i, st, id) == st

\* The for loop over face_adjacency[face] of the flood fill, from entry i on.
RECURSIVE MarkNeighbors(_, _, _, _)
MarkNeighbors(adj, i, st, id) ==
    IF i > Len(adj) THEN st
    ELSE IF st.ids[adj[i]] < 0
         THEN MarkNeighbors(adj, i + 1,
                [queue |-> Append(st.queue, adj[i]),
                 ids |-> [st.ids EXCEPT ![adj[i]] = id]], id)
         ELSE MarkNeighbors(adj, i + 1, st, id)

\* The while loop of one flood fill.
RECURSIVE FloodFill(_, _, _, _)
FloodFill(tp, seam_set, st, id) ==
    IF st.queue = <<>> THEN st.ids
    ELSE LET face == Head(st.queue)
         IN  FloodFill(tp, seam_set,
                MarkNeighbors(IslandAdjacency(tp, seam_set, face, tp.num_edges), 1,
                              [st EXCEPT !.queue = Tail(st.queue)], id), id)

\* The for loop over start_face: a new island for every face still unassigned.
RECURSIVE IslandLoop(_, _, _, _, _, _)
IslandLoop(tp, seam_set, F, start_face, ids, id) ==
    IF start_face >= F THEN [face_island_ids |-> ids, num_islands |-> id]
    ELSE IF ids[start_face] >= 0
         THEN IslandLoop(tp, seam_set, F, start_face + 1, ids, id)
         ELSE IslandLoop(tp, seam_set, F, start_face + 1,
                FloodFill(tp, seam_set,
                          [queue |-> <<start_face>>,
                           ids |-> [ids EXCEPT ![start_face] = id]], id),
                id + 1)

\* Mutant: the start_face loop begins at face 1.
extract_islands_from_one(m, tp, seam_edges) ==
    IslandLoop(tp, Range(seam_edges), m.num_triangles, 1,
               [f \in 0..m.num_triangles-1 |-> -1], 0)

\* Mutant: the island counter starts at 1.
extract_islands_count_from_one(m, tp, seam_edges) ==
    IslandLoop(tp, Range(seam_edges), m.num_triangles, 0,
               [f \in 0..m.num_triangles-1 |-> -1], 1)

\* extract_islands: ids start at -1, then the component search.
extract_islands(m, tp, seam_edges) ==
    IslandLoop(tp, Range(seam_edges), m.num_triangles, 0,
               [f \in 0..m.num_triangles-1 |-> -1], 0)

(***************************************************************************)
(* unwrap.cpp: unwrap_mesh, STEP 1 to STEP 3                               *)
(***************************************************************************)
(***************************************************************************)
(* mesh_io.cpp: load_obj                                                   *)
(***************************************************************************)
\* load_obj is not running.
NoObj == [lines |-> <<>>, pos |-> 0, vertices |-> 0, uvs_temp |-> 0,
          triangles |-> <<>>, ret |-> "none"]

\* The Mesh pointer before load_obj has built a mesh.
NoMesh == [num_vertices |-> 0, num_triangles |-> 0, triangles |-> EmptyArr,
           vertices |-> EmptyArr]

\* A face line as sscanf reads it: the vertex indices v (two to four of
\* them) and the UV indices vt of the v/vt and v/vt/vn forms (<<>> for the
\* plain form).  Indices are 1-based in the file.
FaceIndexLists ==
    {<<1, 2, 3>>, <<0, 1, 2>>, <<1, 2, 5>>, <<1, 2, 3, 4>>, <<1, 2, 3, 5>>, <<1, 2>>}

FaceLines ==
    {[kind |-> "f", v |-> v, vt |-> [i \in 1..Len(v) |-> t]] :
        v \in FaceIndexLists, t \in {1, 3}}
    \cup {[kind |-> "f", v |-> v, vt |-> <<>>] : v \in FaceIndexLists}

\* n copies of one line.
Repeat(line, n) == [i \in 1..n |-> line]

\* Files: 3 or 4 vertex lines, no or 2 vt lines, then the face lines.
ObjFiles ==
    {Repeat([kind |-> "v"], nv) \o Repeat([kind |-> "vt"], nt) \o fs :
        nv \in {3, 4}, nt \in {0, 2},
        fs \in UNION {[1..k -> FaceLines] : k \in 1..MaxFaceLines}}

\* The line fgets returns next.
CurrentLine == obj.lines[obj.pos + 1]
Reading == pc = "load_obj" /\ obj.pos < Len(obj.lines)

\* "v x y z": three floats pushed on vertices.
ReadVertexLine ==
    /\ Reading
    /\ CurrentLine.kind = "v"
    /\ obj' = [obj EXCEPT !.pos = @ + 1, !.vertices = @ + 1]
    /\ UNCHANGED <<running, parked, lscm_call, stdio, null_args, mesh, params, pc, topo, seams, face_island_ids, num_islands,
                   island_id, uvs, result, processed>>

\* "vt u v": two floats pushed on uvs_temp.
ReadUVLine ==
    /\ Reading
    /\ CurrentLine.kind = "vt"
    /\ obj' = [obj EXCEPT !.pos = @ + 1, !.uvs_temp = @ + 1]
    /\ UNCHANGED <<running, parked, lscm_call, stdio, null_args, mesh, params, pc, topo, seams, face_island_ids, num_islands,
                   island_id, uvs, result, processed>>

\* The triangles one face line adds: none when fewer than three indices
\* were parsed or a vertex index is outside 1..num_vertices, else (v0,v1,v2)
\* and for a quad (v0,v2,v3); vt and vn are parsed and not looked at.
FaceTriangles(line, num_vertices) ==
    LET v == line.v
        num_parsed == IF Len(v) >= 3 THEN Len(v) ELSE 0
        valid == \A i \in 1..num_parsed : ~(v[i] < 1 \/ v[i] > num_vertices)
    IN  IF num_parsed >= 3 /\ valid
        THEN IF num_parsed = 4
             THEN <<<<v[1] - 1, v[2] - 1, v[3] - 1>>, <<v[1] - 1, v[3] - 1, v[4] - 1>>>>
             ELSE <<<<v[1] - 1, v[2] - 1, v[3] - 1>>>>
        ELSE <<>>

\* "f ...": num_vertices is the number of vertices read so far.
ReadFaceLine ==
    /\ Reading
    /\ CurrentLine.kind = "f"
    /\ obj' = [obj EXCEPT !.pos = @ + 1,
                          !.triangles = @ \o FaceTriangles(CurrentLine, obj.vertices)]
    /\ UNCHANGED <<running, parked, lscm_call, stdio, null_args, mesh, params, pc, topo, seams, face_island_ids, num_islands,
                   island_id, uvs, result, processed>>

\* End of file: NULL without vertices or triangles, else the Mesh (the
\* coordinates read from the v lines stand at the cube corners).
FinishLoad ==
    /\ pc = "load_obj"
    /\ obj.pos = Len(obj.lines)
    /\ IF obj.vertices = 0 \/ obj.triangles = <<>>
       THEN /\ obj' = [obj EXCEPT !.ret = "NULL"]
            /\ mesh' = mesh
       ELSE /\ obj' = [obj EXCEPT !.ret = "mesh"]
            /\ mesh' = [num_vertices |-> obj.vertices,
                        num_triangles |-> Len(obj.triangles),
                        triangles |-> [f \in 0..Len(obj.triangles)-1 |-> obj.triangles[f + 1]],
                        vertices |-> LayoutCorners(obj.vertices)]
    /\ pc' = "loaded"
    /\ UNCHANGED <<running, parked, lscm_call, stdio, null_args, params, topo, seams, face_island_ids, num_islands,
                   island_id, uvs, result, processed>>

DefaultParams == [min_island_faces |-> 1, pack_islands |-> TRUE, island_margin |-> 2]

\* mesh is one of the meshes of the topology runs: the meshes of at most MaxF
\* triangles over 3 and over MaxV vertices, the cube and the two tetrahedra.
TopoMeshes ==
    \/ \E V \in {3, MaxV}, F \in 1..MaxF :
          \E t0 \in FirstTriangles(V), rest \in [1..F-1 -> TriSet(V)] :
             mesh = MakeMesh(V, TriArray(F, t0, rest), LayoutCorners(V))
    \/ mesh \in {CubeMesh, TwoTetrahedraMesh}

InitTopo ==
    /\ TopoMeshes
    /\ params = DefaultParams
    /\ pc = "build_topology"
    /\ topo = NoTopo
    /\ seams = NoSeams
    /\ face_island_ids = EmptyArr
    /\ num_islands = 0
    /\ island_id = 0
    /\ uvs = EmptyArr
    /\ result = NoResult
    /\ null_args = {}
    /\ processed = <<>>
    /\ obj = NoObj
    /\ running = 1
    /\ parked = NoCall
    /\ stdio = 0
    /\ lscm_call = NoLscm

\* if (!mesh || !params || !result_out) return NULL.
RejectInvalidArguments ==
    /\ pc = "entry"
    /\ null_args # {}
    /\ pc' = "returned_null"
    /\ stdio' = stdio + 1
    /\ UNCHANGED <<running, parked, lscm_call, obj, null_args, mesh, params, topo, seams, face_island_ids, num_islands,
                   island_id, uvs, result, processed>>

\* No argument is NULL: the parameters are printed and STEP 1 begins; the
\* mesh itself is not inspected.
EnterPipeline ==
    /\ pc = "entry"
    /\ null_args = {}
    /\ pc' = "build_topology"
    /\ stdio' = stdio + 1
    /\ UNCHANGED <<running, parked, lscm_call, obj, null_args, mesh, params, topo, seams, face_island_ids, num_islands,
                   island_id, uvs, result, processed>>

\* STEP 1: build_topology, then validate_topology, whose return value is
\* dropped.
BuildTopology ==
    /\ pc = "build_topology"
    /\ topo' \in TopologyBuilds(mesh)
    /\ pc' = "detect_seams"
    /\ stdio' = stdio + 1
    /\ UNCHANGED <<running, parked, lscm_call, obj, null_args, mesh, params, seams, face_island_ids, num_islands, island_id, uvs, result, processed>>

\* STEP 2: detect_seams.
DetectSeams ==
    /\ pc = "detect_seams"
    /\ seams' = detect_seams(mesh, topo)
    /\ pc' = "extract_islands"
    /\ stdio' = stdio + 1
    /\ UNCHANGED <<running, parked, lscm_call, obj, null_args, mesh, params, topo, face_island_ids, num_islands, island_id, uvs, result, processed>>

\* STEP 3: extract_islands, then result->uvs = calloc(...).
ExtractIslands ==
    /\ pc = "extract_islands"
    /\ LET r == extract_islands(mesh, topo, seams.seam_edges)
       IN  /\ face_island_ids' = r.face_island_ids
           /\ num_islands' = r.num_islands
    /\ uvs' = [v \in 0..mesh.num_vertices-1 |-> <<0, 0>>]
    /\ island_id' = 0
    /\ pc' = "lscm"
    /\ stdio' = stdio + 1
    /\ UNCHANGED <<running, parked, lscm_call, obj, null_args, mesh, params, topo, seams, result, processed>>

InitObj ==
    /\ obj \in [lines : ObjFiles, pos : {0}, vertices : {0}, uvs_temp : {0},
                 triangles : {<<>>}, ret : {"none"}]
    /\ mesh = NoMesh
    /\ params = DefaultParams
    /\ pc = "load_obj"
    /\ topo = NoTopo
    /\ seams = NoSeams
    /\ face_island_ids = EmptyArr
    /\ num_islands = 0
    /\ island_id = 0
    /\ uvs = EmptyArr
    /\ result = NoResult
    /\ null_args = {}
    /\ processed = <<>>
    /\ running = 1
    /\ parked = NoCall
    /\ stdio = 0
    /\ lscm_call = NoLscm

NextObj == ReadVertexLine \/ ReadUVLine \/ ReadFaceLine \/ FinishLoad

SpecObj == InitObj /\ [][NextObj]_vars

NextTopo == BuildTopology \/ DetectSeams \/ ExtractIslands

SpecTopo == InitTopo /\ [][NextTopo]_vars

(***************************************************************************)
(* lscm.cpp                                                                *)
(***************************************************************************)
\* The faces of one island in ascending order (island_faces of unwrap_mesh).
IslandFaces(ids, id) == SortedArr({f \in DOMAIN ids : ids[f] = id})

\* Vertex at corner k (0..3n-1) of the walk over the island's faces.
Corner(m, faces, k) == m.triangles[faces[k \div 3]][(k % 3) + 1]

\* local_to_global after the corners lo..hi-1 are visited, from the list s:
\* each vertex at its first visit.  The range is walked in two halves; the
\* test on the list of the first half has it evaluated before the second half
\* is entered.
RECURSIVE LocalToGlobal(_, _, _, _, _)
LocalToGlobal(m, faces, lo, hi, s) ==
    IF hi <= lo THEN s
    ELSE IF hi = lo + 1
    THEN LET gv == Corner(m, faces, lo)
         IN  IF gv \in Range(s) THEN s ELSE Append(s, gv)
    ELSE LET mid == (lo + hi) \div 2
             first == LocalToGlobal(m, faces, lo, mid, s)
         IN  IF Len(first) >= 0 THEN LocalToGlobal(m, faces, mid, hi, first) ELSE first

\* local_to_global as an array over 0..n-1.
IslandVertices(m, faces) ==
    LET s == LocalToGlobal(m, faces, 0, 3 * Cardinality(DOMAIN faces), <<>>)
    IN  [l \in 0..Len(s)-1 |-> s[l + 1]]

\* global_to_local[gv]
LocalIndex(l2g, gv) == CHOOSE l \in DOMAIN l2g : l2g[l] = gv

\* vec3_cross(p1 - p0, p2 - p0) is the zero vector: area < 1e-10.
IsDegenerate(m, f) ==
    LET p0 == m.vertices[m.triangles[f][1]]
        p1 == m.vertices[m.triangles[f][2]]
        p2 == m.vertices[m.triangles[f][3]]
        ax == p1[1] - p0[1]
        ay == p1[2] - p0[2]
        az == p1[3] - p0[3]
        bx == p2[1] - p0[1]
        by == p2[2] - p0[2]
        bz == p2[3] - p0[3]
    IN  /\ ay * bz - az * by = 0
        /\ az * bx - ax * bz = 0
        /\ ax * by - ay * bx = 0

\* The three undirected edges (LSCMEdge) of triangle tri.
TriangleEdges(m, tri) ==
    <<Edge(m.triangles[tri][1], m.triangles[tri][2]),
      Edge(m.triangles[tri][2], m.triangles[tri][3]),
      Edge(m.triangles[tri][3], m.triangles[tri][1])>>

\* edge_count[e] after the face loop: one increment per side of a face of the
\* island that is the edge e.
EdgeCount(m, faces, e) ==
    Cardinality({<<f, k>> \in (DOMAIN faces) \X (1..3) : TriangleEdges(m, faces[f])[k] = e})

\* Mutant: every edge of the island counts as a boundary edge.
find_boundary_vertices_any_edge(m, faces) ==
    SortedArr(UNION {{TriangleEdges(m, faces[f])[k][1], TriangleEdges(m, faces[f])[k][2]} :
                        <<f, k>> \in (DOMAIN faces) \X (1..3)})

\* find_boundary_vertices: the end points of the edges counted once, in
\* ascending order (iteration of the std::set).
find_boundary_vertices(m, faces) ==
    LET edges == {TriangleEdges(m, faces[f])[k] : <<f, k>> \in (DOMAIN faces) \X (1..3)}
        once == {e \in edges : EdgeCount(m, faces, e) = 1}
    IN  SortedArr(UNION {{e[1], e[2]} : e \in once})

\* Square of vec3_length(vec3_sub(p_a, p_b)) for the vertices a and b.
Dist2(m, a, b) ==
    LET p == m.vertices[a]
        q == m.vertices[b]
    IN  (p[1] - q[1]) * (p[1] - q[1]) + (p[2] - q[2]) * (p[2] - q[2])
          + (p[3] - q[3]) * (p[3] - q[3])

\* Mutant: the pair loops are missing, the pins stay at the first two entries.
FarthestPairNever(m, arr, i, best) == best

\* The inner loop of STEP 3 for one i, from j on: a pair replaces the pins
\* when it is strictly farther apart than every pair before it.
RECURSIVE FartherThan(_, _, _, _, _)
FartherThan(m, arr, i, j, best) ==
    IF j >= Cardinality(DOMAIN arr) THEN best
    ELSE IF Dist2(m, arr[i], arr[j]) > best.max_dist
         THEN FartherThan(m, arr, i, j + 1,
                 [max_dist |-> Dist2(m, arr[i], arr[j]),
                  pin1_global |-> arr[i], pin2_global |-> arr[j]])
         ELSE FartherThan(m, arr, i, j + 1, best)

\* The outer loop of STEP 3, from i on, with j from i + 1.
RECURSIVE FarthestPair(_, _, _, _)
FarthestPair(m, arr, i, best) ==
    IF i >= Cardinality(DOMAIN arr) THEN best
    ELSE FarthestPair(m, arr, i + 1, FartherThan(m, arr, i, i + 1, best))

\* STEP 3 of lscm_parameterize for an island of at least 3 vertices: the
\* boundary array, the pins as global and as local indices.
ChoosePins(m, faces) ==
    LET l2g == IslandVertices(m, faces)
        boundary == find_boundary_vertices(m, faces)
        arr == IF Cardinality(DOMAIN boundary) >= 2 THEN boundary ELSE l2g
        far == FarthestPair(m, arr, 0,
                  [max_dist |-> 0, pin1_global |-> arr[0], pin2_global |-> arr[1]])
    IN  [boundary |-> boundary,
         pin1_global |-> far.pin1_global, pin2_global |-> far.pin2_global,
         pin1 |-> LocalIndex(l2g, far.pin1_global),
         pin2 |-> LocalIndex(l2g, far.pin2_global)]

\* Largest x in lo..hi with x * x <= n (sqrt of a fixed-point square).
RECURSIVE IsqrtBetween(_, _, _)
IsqrtBetween(n, lo, hi) ==
    IF lo >= hi THEN lo
    ELSE LET mid == (lo + hi + 1) \div 2
         IN  IF mid * mid <= n THEN IsqrtBetween(n, mid, hi)
             ELSE IsqrtBetween(n, lo, mid - 1)

Isqrt(n) == IsqrtBetween(n, 0, Min2(n, 46340))

Abs(x) == IF x < 0 THEN -x ELSE x

\* math_utils.h: vectors of fixed-point coordinates.
vec3_sub(a, b) == <<a[1] - b[1], a[2] - b[2], a[3] - b[3]>>
vec3_dot(a, b) == (a[1] * b[1] + a[2] * b[2] + a[3] * b[3]) \div Unit
vec3_cross(a, b) ==
    <<(a[2] * b[3] - a[3] * b[2]) \div Unit,
      (a[3] * b[1] - a[1] * b[3]) \div Unit,
      (a[1] * b[2] - a[2] * b[1]) \div Unit>>
vec3_length(v) == Isqrt(v[1] * v[1] + v[2] * v[2] + v[3] * v[3])
vec3_normalize(v) ==
    LET len == vec3_length(v)
    IN  IF len = 0 THEN <<0, 0, 0>>
        ELSE <<(v[1] * Unit) \div len, (v[2] * Unit) \div len, (v[3] * Unit) \div len>>

\* The eight triplets <<row, col, value>> one edge (from local vertex a to
\* local vertex b, with dx, dy its vector in the triangle's plane) adds.
EdgeTriplets(a, b, area, dx, dy) ==
    <<<<2 * a,     2 * b,     (area * dx) \div Unit>>,
      <<2 * a,     2 * b + 1, (area * dy) \div Unit>>,
      <<2 * a + 1, 2 * b,     (area * dy) \div Unit>>,
      <<2 * a + 1, 2 * b + 1, (area * (-dx)) \div Unit>>,
      <<2 * a,     2 * a,     ((-area) * dx) \div Unit>>,
      <<2 * a,     2 * a + 1, ((-area) * dy) \div Unit>>,
      <<2 * a + 1, 2 * a,     ((-area) * dy) \div Unit>>,
      <<2 * a + 1, 2 * a + 1, ((-area) * (-dx)) \div Unit>>>>

\* add_triangle_contribution: the triplets of one triangle, none when its
\* area is below 1e-10.
add_triangle_contribution(lv0, lv1, lv2, p0, p1, p2) ==
    LET e1 == vec3_sub(p1, p0)
        e2 == vec3_sub(p2, p0)
        normal == vec3_normalize(vec3_cross(e1, e2))
        u_axis == vec3_normalize(e1)
        v_axis == vec3_cross(normal, u_axis)
        q1_x == vec3_dot(e1, u_axis)
        q1_y == vec3_dot(e1, v_axis)
        q2_x == vec3_dot(e2, u_axis)
        q2_y == vec3_dot(e2, v_axis)
        area == (Abs(q1_x * q2_y - q1_y * q2_x) \div Unit) \div 2
    IN  IF area < 1 THEN <<>>
        ELSE EdgeTriplets(lv0, lv1, area, q1_x, q1_y)
               \o EdgeTriplets(lv1, lv2, area, q2_x - q1_x, q2_y - q1_y)
               \o EdgeTriplets(lv2, lv0, area, 0 - q2_x, 0 - q2_y)

\* Sum of the values of the first k triplets that are at row r, column c.
RECURSIVE TripletSum(_, _, _, _)
TripletSum(triplets, k, r, c) ==
    IF k = 0 THEN 0
    ELSE TripletSum(triplets, k - 1, r, c)
           + (IF triplets[k][1] = r /\ triplets[k][2] = c THEN triplets[k][3] ELSE 0)

\* Sum of the values at row r, column c of the first k groups of triplets.
RECURSIVE GroupSum(_, _, _, _)
GroupSum(groups, k, r, c) ==
    IF k = 0 THEN 0
    ELSE GroupSum(groups, k - 1, r, c) + TripletSum(groups[k], Len(groups[k]), r, c)

\* A.setFromTriplets for a size x size matrix: entries at the same row and
\* column are added up.  The triplets come in groups, one per call that
\* pushed them.
setFromTriplets(size, groups) ==
    [r \in 0..size-1 |-> [c \in 0..size-1 |-> GroupSum(groups, Len(groups), r, c)]]

\* STEP 2 of lscm_parameterize: the triplets pushed for the first k faces of
\* the island, one group per face; l2g is local_to_global.
RECURSIVE IslandTriplets(_, _, _, _)
IslandTriplets(m, faces, l2g, k) ==
    IF k = 0 THEN <<>>
    ELSE LET tri == faces[k - 1]
             gv0 == m.triangles[tri][1]
             gv1 == m.triangles[tri][2]
             gv2 == m.triangles[tri][3]
         IN  Append(IslandTriplets(m, faces, l2g, k - 1),
                    add_triangle_contribution(
                        LocalIndex(l2g, gv0), LocalIndex(l2g, gv1), LocalIndex(l2g, gv2),
                        m.vertices[gv0], m.vertices[gv1], m.vertices[gv2]))

\* pin_weight: a weight far above every triangle term (1e10 in the code).
PinWeight == 1000000 * Unit

\* The four diagonal triplets of the two pinned vertices.
PinTriplets(pin1, pin2) ==
    <<<<2 * pin1, 2 * pin1, PinWeight>>, <<2 * pin1 + 1, 2 * pin1 + 1, PinWeight>>,
      <<2 * pin2, 2 * pin2, PinWeight>>, <<2 * pin2 + 1, 2 * pin2 + 1, PinWeight>>>>

\* What one call of lscm_parameterize that got past n < 3 computed before
\* STEP 4: n, boundary array, pins and the triplets (those of the faces, then
\* those of the pins).
LscmInternals(m, faces) ==
    LET l2g == IslandVertices(m, faces)
        pins == ChoosePins(m, faces)
    IN  [face_indices |-> faces, n |-> Cardinality(DOMAIN l2g),
         boundary |-> pins.boundary,
         pin1_global |-> pins.pin1_global, pin2_global |-> pins.pin2_global,
         pin1 |-> pins.pin1, pin2 |-> pins.pin2,
         triplets |-> Append(IslandTriplets(m, faces, l2g, Cardinality(DOMAIN faces)),
                             PinTriplets(pins.pin1, pins.pin2))]

\* The matrix A of STEP 4: 2n x 2n, set from the triplets of the call.
LscmMatrix(call) == setFromTriplets(2 * call.n, call.triplets)

\* Mutant: the division by the range is missing.
normalize_uvs_shift_only(island_uvs, num_verts) ==
    IF num_verts = 0 THEN island_uvs
    ELSE LET min_u == SetMin({island_uvs[i][1] : i \in 0..num_verts-1})
             min_v == SetMin({island_uvs[i][2] : i \in 0..num_verts-1})
         IN  [i \in 0..num_verts-1 |->
                <<island_uvs[i][1] - min_u, island_uvs[i][2] - min_v>>]

\* normalize_uvs_to_unit_square: per-axis rescale, a range below 1e-6 counts as 1.
normalize_uvs_to_unit_square(island_uvs, num_verts) ==
    IF num_verts = 0 THEN island_uvs
    ELSE LET min_u == SetMin({island_uvs[i][1] : i \in 0..num_verts-1})
             max_u == SetMax({island_uvs[i][1] : i \in 0..num_verts-1})
             min_v == SetMin({island_uvs[i][2] : i \in 0..num_verts-1})
             max_v == SetMax({island_uvs[i][2] : i \in 0..num_verts-1})
             u_range == IF max_u - min_u < 1 THEN Unit ELSE max_u - min_u
             v_range == IF max_v - min_v < 1 THEN Unit ELSE max_v - min_v
         IN  [i \in 0..num_verts-1 |->
                <<((island_uvs[i][1] - min_u) * Unit) \div u_range,
                  ((island_uvs[i][2] - min_v) * Unit) \div v_range>>]

\* Vectors the sparse solve may return for an island of n vertices (the
\* numerical solution is not computed here; these stand for x before STEP 5).
SolverOutputs(n) ==
    {[l \in 0..n-1 |-> <<l * Unit, (l % 2) * Unit>>],
     [l \in 0..n-1 |-> <<((l + 1) % 3) * Unit - Unit, ((2 * l) % 3) * Unit>>]}

\* lscm_parameterize returns NULL for n < 3; with only degenerate triangles
\* no triplet but the pins is assembled and the factorization fails.
LscmMustFail(m, faces) ==
    \/ Cardinality(DOMAIN IslandVertices(m, faces)) < 3
    \/ \A i \in DOMAIN faces : IsDegenerate(m, faces[i])

(***************************************************************************)
(* packing.cpp                                                             *)
(***************************************************************************)
\* Mutant: the test vertex_island[v] == -1 is missing, a later face takes the
\* vertex over.
RECURSIVE VertexIslandLastFace(_, _, _, _)
VertexIslandLastFace(m, ids, n_islands, k) ==
    IF k = 0 THEN [v \in 0..m.num_vertices-1 |-> -1]
    ELSE LET prev == VertexIslandLastFace(m, ids, n_islands, k - 1)
             f == (k - 1) \div 3
             v == m.triangles[f][((k - 1) % 3) + 1]
         IN  IF ids[f] < 0 \/ ids[f] >= n_islands THEN prev
             ELSE [prev EXCEPT ![v] = ids[f]]

\* vertex_island after the first k corners of the face loop of STEP 1: a
\* vertex goes to the island of the first face that names it.
RECURSIVE VertexIsland(_, _, _, _)
VertexIsland(m, ids, n_islands, k) ==
    IF k = 0 THEN [v \in 0..m.num_vertices-1 |-> -1]
    ELSE LET prev == VertexIsland(m, ids, n_islands, k - 1)
             f == (k - 1) \div 3
             v == m.triangles[f][((k - 1) % 3) + 1]
         IN  IF ids[f] < 0 \/ ids[f] >= n_islands THEN prev
             ELSE IF prev[v] = -1 THEN [prev EXCEPT ![v] = ids[f]]
             ELSE prev

\* islands[i].vertex_indices, as a set.
VertexIndices(vi, i) == {v \in DOMAIN vi : vi[v] = i}

\* Island record of island i: bounding box of its vertices, width and height
\* with the margin, floored at the margin (an island without vertices keeps
\* min = FLT_MAX, max = -FLT_MAX, so both sizes fall to the margin).
IslandBox(uv, vi, i, margin) ==
    LET vs == VertexIndices(vi, i)
    IN  IF vs = {}
        THEN [id |-> i, min_u |-> 0, min_v |-> 0, width |-> margin, height |-> margin]
        ELSE LET min_u == SetMin({uv[v][1] : v \in vs})
                 max_u == SetMax({uv[v][1] : v \in vs})
                 min_v == SetMin({uv[v][2] : v \in vs})
                 max_v == SetMax({uv[v][2] : v \in vs})
             IN  [id |-> i, min_u |-> min_u, min_v |-> min_v,
                  width |-> Max2(max_u - min_u + margin, margin),
                  height |-> Max2(max_v - min_v + margin, margin)]

\* Orders std::sort may leave the islands in: any permutation with
\* non-increasing heights (the comparator does not order equal heights).
SortedOrders(boxes, n) ==
    {p \in [0..n-1 -> 0..n-1] :
        /\ \A a \in 0..n-1 : \A b \in 0..n-1 : p[a] = p[b] => a = b
        /\ \A a \in 0..n-2 : boxes[p[a]].height >= boxes[p[a + 1]].height}

\* STEP 3 after the first k islands of the sorted order.
RECURSIVE Shelf(_, _, _)
Shelf(boxes, order, k) ==
    IF k = 0
    THEN [shelf_x |-> 0, shelf_y |-> 0, shelf_height |-> boxes[order[0]].height,
          max_width |-> 0, target |-> [i \in {} |-> <<0, 0>>]]
    ELSE LET prev == Shelf(boxes, order, k - 1)
             b == boxes[order[k - 1]]
             newShelf == prev.shelf_x + b.width > Unit /\ prev.shelf_x > 0
             x == IF newShelf THEN 0 ELSE prev.shelf_x
             y == IF newShelf THEN prev.shelf_y + prev.shelf_height ELSE prev.shelf_y
             h == IF newShelf THEN b.height ELSE prev.shelf_height
         IN  [shelf_x |-> x + b.width, shelf_y |-> y, shelf_height |-> h,
              max_width |-> Max2(prev.max_width, x + b.width),
              target |-> [i \in (DOMAIN prev.target) \cup {b.id} |->
                            IF i = b.id THEN <<x, y>> ELSE prev.target[i]]]

\* Mutant: the scale of STEP 5 is never applied.
ScaleToFitNever(uv, max_width, total_height) == uv

\* STEP 5: scale = 1 / max(max_width, total_height), applied when below 1.
ScaleToFit(uv, max_width, total_height) ==
    LET extent == Max2(max_width, total_height)
    IN  IF extent > Unit
        THEN [v \in DOMAIN uv |-> <<(uv[v][1] * Unit) \div extent, (uv[v][2] * Unit) \div extent>>]
        ELSE uv

\* pack_uv_islands for one sorted order of the islands.
pack_uv_islands(m, uv, ids, n_islands, margin, order) ==
    LET vi == VertexIsland(m, ids, n_islands, 3 * m.num_triangles)
        boxes == [i \in 0..n_islands-1 |-> IslandBox(uv, vi, i, margin)]
        sh == Shelf(boxes, order, n_islands)
        total_height == sh.shelf_y + sh.shelf_height
        moved == [v \in DOMAIN uv |->
                    IF vi[v] = -1 THEN uv[v]
                    ELSE <<uv[v][1] + sh.target[vi[v]][1] - boxes[vi[v]].min_u,
                           uv[v][2] + sh.target[vi[v]][2] - boxes[vi[v]].min_v>>]
    IN  ScaleToFit(moved, sh.max_width, total_height)

PackOrders(m, uv, ids, n_islands, margin) ==
    LET vi == VertexIsland(m, ids, n_islands, 3 * m.num_triangles)
        boxes == [i \in 0..n_islands-1 |-> IslandBox(uv, vi, i, margin)]
    IN  SortedOrders(boxes, n_islands)

(***************************************************************************)
(* unwrap.cpp: unwrap_mesh, STEP 4 to STEP 6                               *)
(***************************************************************************)
\* Meshes of the full pipeline runs.
TrianglesOf(list) == [f \in 0..Len(list)-1 |-> list[f + 1]]

ExtraMeshes ==
    {MakeMesh(6, TrianglesOf(<<<<0, 1, 2>>, <<3, 4, 5>>>>), LayoutCorners(6)),
     MakeMesh(6, TrianglesOf(<<<<0, 1, 2>>, <<3, 4, 5>>>>), LayoutLine(6)),
     MakeMesh(5, TrianglesOf(<<<<0, 1, 2>>, <<0, 3, 4>>, <<1, 3, 4>>>>), LayoutCorners(5)),
     MakeMesh(5, TrianglesOf(<<<<0, 1, 2>>, <<0, 1, 3>>, <<0, 1, 4>>>>), LayoutCorners(5)),
     MakeMesh(4, TrianglesOf(<<<<0, 1, 2>>, <<0, 3, 1>>, <<0, 2, 3>>, <<1, 3, 2>>>>), LayoutCorners(4)),
     MakeMesh(3, TrianglesOf(<<<<0, 0, 1>>>>), LayoutCorners(3)),
     MakeMesh(5, TrianglesOf(<<<<0, 1, 2>>, <<3, 3, 4>>>>), LayoutCorners(5)),
     MakeMesh(6, TrianglesOf(<<<<0, 1, 2>>, <<0, 3, 4>>>>), LayoutCorners(6)),
     CubeMesh}

PipelineMeshes ==
    MeshesOver(MaxV, MaxPF, LayoutCorners(MaxV))
    \cup MeshesOver(MaxV, MaxPF, LayoutLine(MaxV))
    \cup ExtraMeshes

ParamSet ==
    [min_island_faces : {1, 2}, pack_islands : BOOLEAN, island_margin : {0, 2}]

\* The caller passes three pointers, any of which may be NULL; what a NULL
\* pointer would point to plays no part.
Init ==
    /\ \/ /\ null_args = {}
          /\ mesh \in PipelineMeshes
          /\ params \in ParamSet
       \/ /\ null_args \in (SUBSET {"mesh", "params", "result_out"}) \ {{}}
          /\ mesh = CubeMesh
          /\ params = DefaultParams
    /\ pc = "entry"
    /\ topo = NoTopo
    /\ seams = NoSeams
    /\ face_island_ids = EmptyArr
    /\ num_islands = 0
    /\ island_id = 0
    /\ uvs = EmptyArr
    /\ result = NoResult
    /\ processed = <<>>
    /\ obj = NoObj
    /\ running = 1
    /\ parked = NoCall
    /\ stdio = 0
    /\ lscm_call = NoLscm

InIslandLoop == pc = "lscm" /\ island_id < num_islands

\* island_faces.size() < min_island_faces: continue, the UVs stay as calloc left them.
SkipSmallIsland ==
    /\ InIslandLoop
    /\ Cardinality(DOMAIN IslandFaces(face_island_ids, island_id)) < params.min_island_faces
    /\ island_id' = island_id + 1
    /\ processed' = Append(processed, <<island_id, "skipped">>)
    /\ stdio' = stdio + 1
    /\ UNCHANGED <<running, parked, lscm_call, obj, null_args, mesh, params, pc, topo, seams, face_island_ids, num_islands, uvs, result>>

\* lscm_parameterize returned UVs: copy_island_uvs writes them to the island's vertices.
LscmSucceeded ==
    /\ InIslandLoop
    /\ LET faces == IslandFaces(face_island_ids, island_id)
           l2g == IslandVertices(mesh, faces)
           n == Cardinality(DOMAIN l2g)
       IN  /\ Cardinality(DOMAIN faces) >= params.min_island_faces
           /\ ~LscmMustFail(mesh, faces)
           /\ lscm_call' = LscmInternals(mesh, faces)
           /\ \E x \in SolverOutputs(n) :
                LET island_uvs == normalize_uvs_to_unit_square(x, n)
                IN  uvs' = [gv \in DOMAIN uvs |->
                              IF gv \in Range(l2g) THEN island_uvs[LocalIndex(l2g, gv)]
                              ELSE uvs[gv]]
    /\ island_id' = island_id + 1
    /\ processed' = Append(processed, <<island_id, "lscm">>)
    /\ stdio' = stdio + 1
    /\ UNCHANGED <<running, parked, obj, null_args, mesh, params, pc, topo, seams, face_island_ids, num_islands, result>>

\* Mutant: a failed island makes unwrap_mesh give up and return NULL.
LscmFailedAborts ==
    /\ InIslandLoop
    /\ pc' = "returned_null"
    /\ stdio' = stdio + 1
    /\ UNCHANGED <<running, parked, lscm_call, obj, null_args, mesh, params, topo, seams, face_island_ids, num_islands,
                   island_id, uvs, result, processed>>

\* lscm_parameterize returned NULL, at n < 3 or after a failed factorization or
\* solve: the island's vertices get (x, y) of their position.
LscmFailed ==
    /\ InIslandLoop
    /\ LET faces == IslandFaces(face_island_ids, island_id)
           l2g == IslandVertices(mesh, faces)
       IN  /\ Cardinality(DOMAIN faces) >= params.min_island_faces
           /\ uvs' = [gv \in DOMAIN uvs |->
                        IF gv \in Range(l2g)
                        THEN <<mesh.vertices[gv][1], mesh.vertices[gv][2]>>
                        ELSE uvs[gv]]
           /\ lscm_call' = IF Cardinality(DOMAIN l2g) < 3 THEN lscm_call
                           ELSE LscmInternals(mesh, faces)
    /\ island_id' = island_id + 1
    /\ processed' = Append(processed, <<island_id, "planar">>)
    /\ stdio' = stdio + 1
    /\ UNCHANGED <<running, parked, obj, null_args, mesh, params, pc, topo, seams, face_island_ids, num_islands, result>>

\* STEP 5 with pack_islands set; pack_uv_islands returns at once for <= 1 island.
PackIslands ==
    /\ pc = "lscm" /\ island_id >= num_islands
    /\ params.pack_islands
    /\ IF num_islands <= 1
       THEN uvs' = uvs
       ELSE \E order \in PackOrders(mesh, uvs, face_island_ids, num_islands, params.island_margin) :
                uvs' = pack_uv_islands(mesh, uvs, face_island_ids, num_islands,
                                       params.island_margin, order)
    /\ pc' = "metrics"
    /\ UNCHANGED <<running, parked, lscm_call, stdio, obj, null_args, mesh, params, topo, seams, face_island_ids, num_islands, island_id, result, processed>>

\* STEP 5 with pack_islands clear.
SkipPacking ==
    /\ pc = "lscm" /\ island_id >= num_islands
    /\ ~params.pack_islands
    /\ pc' = "metrics"
    /\ UNCHANGED <<running, parked, lscm_call, stdio, obj, null_args, mesh, params, topo, seams, face_island_ids, num_islands, island_id, uvs, result, processed>>

\* compute_quality_metrics: the defaults 1.0, 1.0 and 0.7.
compute_quality_metrics(n_islands, ids) ==
    [num_islands |-> n_islands, face_island_ids |-> ids,
     avg_stretch |-> Unit, max_stretch |-> Unit, coverage |-> (7 * Unit) \div 10]

\* STEP 6 and return of the mesh with *result_out set.
ComputeMetrics ==
    /\ pc = "metrics"
    /\ result' = compute_quality_metrics(num_islands, face_island_ids)
    /\ pc' = "done"
    /\ stdio' = stdio + 1
    /\ UNCHANGED <<running, parked, lscm_call, obj, null_args, mesh, params, topo, seams, face_island_ids, num_islands, island_id, uvs, processed>>

\* The caller hands the mesh unwrap_mesh packed to pack_uv_islands once more,
\* with the same island assignment and margin.
PackAgain ==
    /\ pc = "done"
    /\ params.pack_islands
    /\ IF num_islands <= 1
       THEN uvs' = uvs
       ELSE \E order \in PackOrders(mesh, uvs, result.face_island_ids, result.num_islands,
                                    params.island_margin) :
                uvs' = pack_uv_islands(mesh, uvs, result.face_island_ids, result.num_islands,
                                       params.island_margin, order)
    /\ pc' = "packed_again"
    /\ UNCHANGED <<running, parked, lscm_call, stdio, obj, null_args, mesh, params, topo, seams, face_island_ids, num_islands,
                   island_id, result, processed>>

Next ==
    \/ RejectInvalidArguments
    \/ EnterPipeline
    \/ BuildTopology
    \/ DetectSeams
    \/ ExtractIslands
    \/ SkipSmallIsland
    \/ LscmSucceeded
    \/ LscmFailed
    \/ PackIslands
    \/ SkipPacking
    \/ ComputeMetrics
    \/ PackAgain

Spec == Init /\ [][Next]_vars

\* Control is inside unwrap_mesh.
Busy == pc \in {"entry", "build_topology", "detect_seams", "extract_islands", "lscm", "metrics"}

\* Control moves on: the position or the loop counter of STEP 4 changes, as
\* it does in every step of Next.
Advance ==
    /\ Busy
    /\ \E p \in {"returned_null", "build_topology", "detect_seams", "extract_islands",
                  "lscm", "metrics", "done"} :
          \E i \in 0..mesh.num_triangles :
              /\ pc' = p
              /\ island_id' = i
              /\ <<p, i>> # <<pc, island_id>>

\* unwrap_mesh is sequential code without a blocking call: while control is
\* inside it, it keeps moving.
LiveSpec == Init /\ [][Next]_vars /\ WF_<<pc, island_id>>(Advance)

(***************************************************************************)
(* Two calls of unwrap_mesh on two threads.  Everything a call touches is  *)
(* an argument, a local of unwrap_mesh or of a function it calls, or a     *)
(* heap object the call allocated; no function has a static local and no   *)
(* file has a global.  The state variables above are the locals of the     *)
(* call whose thread is scheduled, parked holds those of the other call,   *)
(* and stdio is the one thing both calls write: the standard streams.      *)
(***************************************************************************)
\* The arguments, locals and heap objects of the scheduled call.
Local ==
    [mesh |-> mesh, params |-> params, pc |-> pc, topo |-> topo, seams |-> seams,
     face_island_ids |-> face_island_ids, num_islands |-> num_islands,
     island_id |-> island_id, uvs |-> uvs, result |-> result,
     null_args |-> null_args, processed |-> processed, lscm_call |-> lscm_call]

\* A call at the entry of unwrap_mesh.
NewCall(m, p, nulls) ==
    [mesh |-> m, params |-> p, pc |-> "entry", topo |-> NoTopo, seams |-> NoSeams,
     face_island_ids |-> EmptyArr, num_islands |-> 0, island_id |-> 0,
     uvs |-> EmptyArr, result |-> NoResult, null_args |-> nulls, processed |-> <<>>,
     lscm_call |-> NoLscm]

\* Calls of the concurrent runs: two islands with packing, one island below
\* min_island_faces without packing, and a call with a NULL mesh.
ConcCalls ==
    {NewCall(MakeMesh(6, TrianglesOf(<<<<0, 1, 2>>, <<3, 4, 5>>>>), LayoutCorners(6)),
             DefaultParams, {}),
     NewCall(MakeMesh(3, TrianglesOf(<<<<0, 1, 2>>>>), LayoutCorners(3)),
             [min_island_faces |-> 2, pack_islands |-> FALSE, island_margin |-> 0], {}),
     NewCall(CubeMesh, DefaultParams, {"mesh"})}

InitConc ==
    /\ \E c \in ConcCalls :
          /\ mesh = c.mesh
          /\ params = c.params
          /\ null_args = c.null_args
    /\ parked \in ConcCalls
    /\ running = 1
    /\ stdio = 0
    /\ lscm_call = NoLscm
    /\ pc = "entry"
    /\ topo = NoTopo
    /\ seams = NoSeams
    /\ face_island_ids = EmptyArr
    /\ num_islands = 0
    /\ island_id = 0
    /\ uvs = EmptyArr
    /\ result = NoResult
    /\ processed = <<>>
    /\ obj = NoObj

\* Mutant: the loop counter of STEP 4 is one static variable of both calls.
SwitchSharedCounter ==
    /\ parked.pc # "none"
    /\ running' = 3 - running
    /\ parked' = Local
    /\ mesh' = parked.mesh
    /\ params' = parked.params
    /\ pc' = parked.pc
    /\ topo' = parked.topo
    /\ seams' = parked.seams
    /\ face_island_ids' = parked.face_island_ids
    /\ num_islands' = parked.num_islands
    /\ island_id' = island_id
    /\ uvs' = parked.uvs
    /\ result' = parked.result
    /\ null_args' = parked.null_args
    /\ processed' = parked.processed
    /\ lscm_call' = parked.lscm_call
    /\ UNCHANGED <<obj, stdio>>

\* The scheduler suspends the running thread and resumes the other one: each
\* call finds its arguments, locals and heap objects as it left them.
Switch ==
    /\ parked.pc # "none"
    /\ running' = 3 - running
    /\ parked' = Local
    /\ mesh' = parked.mesh
    /\ params' = parked.params
    /\ pc' = parked.pc
    /\ topo' = parked.topo
    /\ seams' = parked.seams
    /\ face_island_ids' = parked.face_island_ids
    /\ num_islands' = parked.num_islands
    /\ island_id' = parked.island_id
    /\ uvs' = parked.uvs
    /\ result' = parked.result
    /\ null_args' = parked.null_args
    /\ processed' = parked.processed
    /\ lscm_call' = parked.lscm_call
    /\ UNCHANGED <<obj, stdio>>

NextConc == Next \/ Switch

SpecConc == InitConc /\ [][NextConc]_vars

(***************************************************************************)
(* Vocabulary of the properties, defined on the mesh and the output arrays *)
(* and not through the search code above.                                  *)
(***************************************************************************)
Faces == 0..mesh.num_triangles-1
EdgeIds == 0..topo.num_edges-1

NotStarted == {"load_obj", "loaded", "entry", "returned_null", "build_topology"}
AfterTopology == pc \notin NotStarted
AfterSeams == pc \notin NotStarted \cup {"detect_seams"}
AfterIslands == pc \notin NotStarted \cup {"detect_seams", "extract_islands"}

TriVerts(f) == {mesh.triangles[f][1], mesh.triangles[f][2], mesh.triangles[f][3]}

\* The triangles of the mesh that contain both end points of edge e.
TrianglesWithEdge(e) ==
    {f \in Faces : {topo.edges[e][1], topo.edges[e][2]} \subseteq TriVerts(f)}

InteriorEdges == {e \in EdgeIds : topo.edge_faces[e][2] # -1}
SeamSet == Range(seams.seam_edges)
NonSeamInterior == InteriorEdges \ SeamSet

\* Faces reachable from the set S in the dual graph restricted to edges Es.
RECURSIVE DualClosure(_, _)
DualClosure(S, Es) ==
    LET T == S \cup {g \in Faces : \E e \in Es :
                        \/ topo.edge_faces[e][1] \in S /\ topo.edge_faces[e][2] = g
                        \/ topo.edge_faces[e][2] \in S /\ topo.edge_faces[e][1] = g}
    IN  IF T = S THEN S ELSE DualClosure(T, Es)

Components(Es) == {DualClosure({f}, Es) : f \in Faces}

\* A (multi)graph over the faces is a forest iff #edges = #faces - #components.
IsForest(Es) == Cardinality(Es) = Cardinality(Faces) - Cardinality(Components(Es))

IsManifold == \A e \in EdgeIds : Cardinality(TrianglesWithEdge(e)) <= 2
DualConnected == Cardinality(Components(InteriorEdges)) = 1

(***************************************************************************)
(* Properties                                                              *)
(***************************************************************************)
\* C1 (as stated): every UV of the mesh unwrap_mesh returns lies in [0,1]^2.
C1_UVsInUnitSquare ==
    pc = "done" =>
        \A v \in DOMAIN uvs :
            /\ 0 <= uvs[v][1] /\ uvs[v][1] <= Unit
            /\ 0 <= uvs[v][2] /\ uvs[v][2] <= Unit

\* C2: after island extraction every face has an island id in
\* [0, num_islands); no face keeps the unassigned value -1.
C2_EveryFaceHasIsland ==
    AfterIslands =>
        /\ DOMAIN face_island_ids = Faces
        /\ \A f \in Faces : face_island_ids[f] >= 0 /\ face_island_ids[f] < num_islands

C2_Witness == AfterIslands /\ num_islands >= 2 /\ mesh.num_triangles >= 3

\* C3: two faces have the same island id iff a path of non-seam interior
\* edges joins them in the dual graph.
C3_IslandsAreComponents ==
    AfterIslands =>
        \A f \in Faces : \A g \in Faces :
            (face_island_ids[f] = face_island_ids[g])
                <=> (g \in DualClosure({f}, NonSeamInterior))

C3_Witness ==
    /\ AfterIslands
    /\ \E f \in Faces : \E g \in Faces : f # g /\ face_island_ids[f] = face_island_ids[g]
    /\ \E f \in Faces : \E g \in Faces : face_island_ids[f] # face_island_ids[g]

\* Bounding box of the UVs of all vertices of the faces of island i.
IslandAABB(i) ==
    LET vs == UNION {TriVerts(f) : f \in {g \in Faces : face_island_ids[g] = i}}
    IN  [min_u |-> SetMin({uvs[v][1] : v \in vs}), max_u |-> SetMax({uvs[v][1] : v \in vs}),
         min_v |-> SetMin({uvs[v][2] : v \in vs}), max_v |-> SetMax({uvs[v][2] : v \in vs})]

InteriorsOverlap(a, b) ==
    /\ Max2(a.min_u, b.min_u) < Min2(a.max_u, b.max_u)
    /\ Max2(a.min_v, b.min_v) < Min2(a.max_v, b.max_v)

C5_EdgeFaces ==
    AfterTopology =>
        \A e \in EdgeIds :
            /\ topo.edge_faces[e][1] \in Faces
            /\ (topo.edge_faces[e][2] = -1) <=> (Cardinality(TrianglesWithEdge(e)) = 1)
            /\ (topo.edge_faces[e][2] # -1) => (topo.edge_faces[e][2] \in Faces)

C5_Witness ==
    /\ AfterTopology
    /\ \E e \in EdgeIds : topo.edge_faces[e][2] = -1
    /\ \E e \in EdgeIds : topo.edge_faces[e][2] # -1

\* C6: the seam array holds exactly the interior edges that are not BFS tree
\* edges, never a boundary edge or a tree edge, each edge index once.
C6_SeamsAreInteriorNonTree ==
    AfterSeams =>
        /\ SeamSet = {e \in InteriorEdges : e \notin seams.tree_edges}
        /\ \A e \in SeamSet : topo.edge_faces[e][1] >= 0 /\ topo.edge_faces[e][2] >= 0
        /\ SeamSet \cap seams.tree_edges = {}
        /\ DOMAIN seams.seam_edges = 0..seams.num_seams-1
        /\ \A i \in DOMAIN seams.seam_edges : \A j \in DOMAIN seams.seam_edges :
              seams.seam_edges[i] = seams.seam_edges[j] => i = j

C6_Witness ==
    /\ AfterSeams
    /\ seams.num_seams >= 1
    /\ seams.tree_edges # {}
    /\ \E e \in EdgeIds : topo.edge_faces[e][2] = -1

\* C7: the dual graph restricted to the non-seam interior edges has no cycle.
C7_NonSeamEdgesAreForest == AfterSeams => IsForest(NonSeamInterior)

C7_Witness == AfterSeams /\ seams.num_seams >= 1 /\ ~IsForest(InteriorEdges)

\* C8: the unit cube has 18 edges, all interior, 11 tree edges and 7 seams;
\* a manifold mesh with a connected dual graph has
\* (interior edges) - (F - 1) seams.
C8_SeamCount ==
    AfterSeams =>
        /\ (mesh = CubeMesh) =>
              /\ topo.num_edges = 18
              /\ InteriorEdges = EdgeIds
              /\ Cardinality(seams.tree_edges) = 11
              /\ seams.num_seams = 7
        /\ (IsManifold /\ DualConnected) =>
              seams.num_seams = Cardinality(InteriorEdges) - (mesh.num_triangles - 1)

C8_Witness == AfterSeams /\ mesh = CubeMesh /\ IsManifold /\ DualConnected

\* C9 (as stated): the BFS restarts until every face is visited, the non-seam
\* interior edges span every dual component and
\* seams = (interior edges) - (F - dual components).
C9_SpanningForestAllComponents ==
    AfterSeams =>
        /\ seams.visited = Faces
        /\ Components(NonSeamInterior) = Components(InteriorEdges)
        /\ seams.num_seams = Cardinality(InteriorEdges)
              - (mesh.num_triangles - Cardinality(Components(InteriorEdges)))

\* C10 (as stated): the two faces of every seam edge have different island ids.
C10_SeamSeparatesIslands ==
    AfterIslands =>
        \A e \in SeamSet :
            face_island_ids[topo.edge_faces[e][1]] # face_island_ids[topo.edge_faces[e][2]]

\* C10 (amended): the two faces of a seam edge have the same island id when
\* they are reachable from face 0 in the dual graph, and different island ids
\* when they are not.
C10_SeamFacesSameIslandIffReached ==
    AfterIslands =>
        \A e \in SeamSet :
            (face_island_ids[topo.edge_faces[e][1]] = face_island_ids[topo.edge_faces[e][2]])
                <=> (topo.edge_faces[e][1] \in DualClosure({0}, InteriorEdges))

C10_Witness ==
    /\ AfterIslands
    /\ \E e \in SeamSet :
          /\ topo.edge_faces[e][1] # topo.edge_faces[e][2]
          /\ face_island_ids[topo.edge_faces[e][1]] = face_island_ids[topo.edge_faces[e][2]]

\* The vertex pairs that are a side of some triangle of the mesh.
MeshSides == UNION {{{t[1], t[2]}, {t[2], t[3]}, {t[3], t[1]}} : t \in Range(mesh.triangles)}

\* Closed manifold mesh: every side belongs to exactly two triangles.
ClosedManifold ==
    \A sd \in MeshSides : Cardinality({f \in Faces : sd \subseteq TriVerts(f)}) = 2

EulerCharacteristic == mesh.num_vertices - topo.num_edges + mesh.num_triangles

C18_ValidateReturnsEuler ==
    AfterTopology => validate_topology(mesh, topo).ret = EulerCharacteristic

\* C18 (amended): validate_topology prints V - E + F and returns 1 whatever
\* that value is, and unwrap_mesh goes on to detect_seams after it.
C18_ValidateReturnsOne ==
    /\ [](AfterTopology =>
            validate_topology(mesh, topo) = [euler |-> EulerCharacteristic, ret |-> 1])
    /\ [][pc = "build_topology" => pc' = "detect_seams"]_vars

C18_Witness ==
    /\ pc = "detect_seams"
    /\ EulerCharacteristic \notin {1, 2}
    /\ validate_topology(mesh, topo).ret = 1

\* C19 (as stated): for an edge shared by three or more triangles,
\* build_topology records the two lowest face indices as (f0, f1) and no
\* later triangle overwrites them.
C19_KeepsFirstTwoFaces ==
    AfterTopology =>
        \A e \in EdgeIds :
            LET fs == TrianglesWithEdge(e)
            IN  Cardinality(fs) >= 3 =>
                    /\ topo.edge_faces[e][1] = SetMin(fs)
                    /\ topo.edge_faces[e][2] = SetMin(fs \ {SetMin(fs)})

\* The triangles of the face lines among the first k lines whose vertex
\* indices and UV indices all lie in 1..count, count being the number of v
\* and of vt lines read before the face line.
RECURSIVE InRangeTriangles(_, _)
InRangeTriangles(lines, k) ==
    IF k = 0 THEN <<>>
    ELSE LET line == lines[k]
             nv == Cardinality({i \in 1..k-1 : lines[i].kind = "v"})
             nt == Cardinality({i \in 1..k-1 : lines[i].kind = "vt"})
             v == IF line.kind = "f" THEN line.v ELSE <<>>
             vt == IF line.kind = "f" THEN line.vt ELSE <<>>
             ok == /\ Len(v) >= 3
                   /\ \A i \in 1..Len(v) : v[i] >= 1 /\ v[i] <= nv
                   /\ \A i \in 1..Len(vt) : vt[i] >= 1 /\ vt[i] <= nt
             tris == IF Len(v) = 4
                     THEN <<<<v[1] - 1, v[2] - 1, v[3] - 1>>, <<v[1] - 1, v[3] - 1, v[4] - 1>>>>
                     ELSE <<<<v[1] - 1, v[2] - 1, v[3] - 1>>>>
         IN  InRangeTriangles(lines, k - 1) \o (IF ok THEN tris ELSE <<>>)

\* C20 (as stated): load_obj skips every face line with a vertex index or a
\* UV index outside 1..count, so every stored triangle has its indices in
\* [0, V) and only the faces with all indices in range are kept.
C20_OnlyInRangeFacesLoaded ==
    (pc = "loaded" /\ obj.ret = "mesh") =>
        /\ \A f \in 0..mesh.num_triangles-1 : \A k \in 1..3 :
              mesh.triangles[f][k] >= 0 /\ mesh.triangles[f][k] < mesh.num_vertices
        /\ obj.triangles = InRangeTriangles(obj.lines, Len(obj.lines))

\* A mesh that breaks a Mesh invariant: V < 3, F < 1, a vertex index outside
\* [0, V), or a triangle that names a vertex twice.
Malformed(m) ==
    \/ m.num_vertices < 3
    \/ m.num_triangles < 1
    \/ \E f \in 0..m.num_triangles-1 :
          \/ \E k \in 1..3 : m.triangles[f][k] < 0 \/ m.triangles[f][k] >= m.num_vertices
          \/ Cardinality({m.triangles[f][1], m.triangles[f][2], m.triangles[f][3]}) < 3

\* C11 (as stated): when an argument is NULL or the mesh is malformed,
\* unwrap_mesh returns NULL, writes nothing to *result_out and runs no
\* pipeline stage.
C11_InvalidArgumentRejected ==
    (null_args # {} \/ Malformed(mesh)) =>
        /\ pc \in {"entry", "returned_null"}
        /\ result = NoResult
        /\ topo = NoTopo

\* The island ids of the loop rounds of STEP 4 so far.
ProcessedIds == [i \in 1..Len(processed) |-> processed[i][1]]

\* C12: a call with non-NULL arguments and a well-formed mesh always reaches
\* the return of a mesh with *result_out set, never the NULL return, and the
\* loop of STEP 4 handles the island ids 0, 1, ..., num_islands-1 in this
\* order, whichever islands lscm_parameterize failed on.
C12_UnwrapCompletes ==
    /\ [](null_args = {} =>
            /\ pc # "returned_null"
            /\ ProcessedIds = [i \in 1..Len(processed) |-> i - 1]
            /\ pc \in {"metrics", "done"} => Len(processed) = num_islands
            /\ pc = "done" => (result # NoResult /\ result.num_islands = num_islands))
    /\ ((pc = "entry" /\ null_args = {} /\ ~Malformed(mesh)) ~> (pc = "done"))

C12_Witness ==
    /\ pc = "done"
    /\ ~Malformed(mesh)
    /\ num_islands >= 2
    /\ \E i \in 1..Len(processed) : processed[i][2] = "planar"
    /\ \E i \in 1..Len(processed) : processed[i][2] = "lscm"

\* The last loop round of STEP 4 and the vertices of its island.
LastRound == processed[Len(processed)]
LastIslandVertices == IslandVertices(mesh, IslandFaces(face_island_ids, LastRound[1]))
JustProcessed(outcome) ==
    ~Malformed(mesh) /\ pc = "lscm" /\ processed # <<>> /\ LastRound[2] = outcome

\* The planar projection of the vertices l2g: (x, y) of the input position.
PlanarUVs(l2g) ==
    [l \in DOMAIN l2g |-> <<mesh.vertices[l2g[l]][1], mesh.vertices[l2g[l]][2]>>]

\* C13 (as stated): when lscm_parameterize fails on an island, every vertex of
\* the island gets the planar projection (x, y) of its position, normalized
\* per axis to [0,1] over the island, and the loop goes on.
C13_FallbackIsNormalizedPlanar ==
    JustProcessed("planar") =>
        LET l2g == LastIslandVertices
            expected == normalize_uvs_to_unit_square(PlanarUVs(l2g), Cardinality(DOMAIN l2g))
        IN  /\ island_id = LastRound[1] + 1
            /\ \A l \in DOMAIN l2g : uvs[l2g[l]] = expected[l]

\* C14 (as stated): an island with fewer than min_island_faces faces is
\* skipped by LSCM and its vertices get the planar projection (x, y) of
\* their positions.
C14_SmallIslandGetsPlanar ==
    JustProcessed("skipped") =>
        LET l2g == LastIslandVertices
        IN  /\ Cardinality(DOMAIN IslandFaces(face_island_ids, LastRound[1]))
                  < params.min_island_faces
            /\ \A l \in DOMAIN l2g : uvs[l2g[l]] = PlanarUVs(l2g)[l]

\* C15 (as stated): in the mesh unwrap_mesh returns, every island with at
\* least two vertices has two vertices with different UVs, for every
\* min_island_faces and pack_islands.
C15_IslandNotCollapsed ==
    (pc = "done" /\ ~Malformed(mesh)) =>
        \A i \in 0..num_islands-1 :
            LET vs == UNION {TriVerts(f) : f \in {g \in Faces : face_island_ids[g] = i}}
            IN  Cardinality(vs) >= 2 => \E v \in vs : \E w \in vs : uvs[v] # uvs[w]

\* Largest difference between two UV arrays over the same vertices.
MaxUVShift(a, b) ==
    SetMax({0} \cup {IF a[v][k] >= b[v][k] THEN a[v][k] - b[v][k] ELSE b[v][k] - a[v][k] :
                        v \in DOMAIN a, k \in 1..2})

EdgeFunction(a, b, p) ==
    (b[1] - a[1]) * (p[2] - a[2]) - (b[2] - a[2]) * (p[1] - a[1])

\* The centre of pixel (i, j) of the GridSide x GridSide grid over [0,1]^2
\* lies in the closed UV triangle of face f.  Coordinates are scaled by
\* 2 * GridSide, so that the centre ((2i+1)/(2 GridSide), (2j+1)/(2 GridSide))
\* is the integer point ((2i+1) Unit, (2j+1) Unit).
PixelInTriangle(m, uv, f, i, j) ==
    LET S == 2 * GridSide
        a == <<uv[m.triangles[f][1]][1] * S, uv[m.triangles[f][1]][2] * S>>
        b == <<uv[m.triangles[f][2]][1] * S, uv[m.triangles[f][2]][2] * S>>
        c == <<uv[m.triangles[f][3]][1] * S, uv[m.triangles[f][3]][2] * S>>
        p == <<(2 * i + 1) * Unit, (2 * j + 1) * Unit>>
        e1 == EdgeFunction(a, b, p)
        e2 == EdgeFunction(b, c, p)
        e3 == EdgeFunction(c, a, p)
    IN  /\ \A k \in 1..2 : /\ p[k] >= SetMin({a[k], b[k], c[k]})
                           /\ p[k] <= SetMax({a[k], b[k], c[k]})
        /\ \/ (e1 >= 0 /\ e2 >= 0 /\ e3 >= 0)
           \/ (e1 <= 0 /\ e2 <= 0 /\ e3 <= 0)

\* Pixels set when every UV triangle is rasterized into the grid.
PixelsSet(m, uv) ==
    {px \in (0..GridSide-1) \X (0..GridSide-1) :
        \E f \in 0..m.num_triangles-1 : PixelInTriangle(m, uv, f, px[1], px[2])}

\* C21 (as stated): the coverage of the result summary is the number of
\* pixels set by rasterizing every UV triangle of the returned mesh into the
\* grid over [0,1]^2, divided by the number of pixels of the grid.
C21_CoverageIsRasterizedFraction ==
    (pc = "done" /\ ~Malformed(mesh)) =>
        result.coverage * GridSide * GridSide = Cardinality(PixelsSet(mesh, uvs)) * Unit

(***************************************************************************)
(* Concurrent calls                                                        *)
(***************************************************************************)
\* What call t owns: its arguments, locals and heap objects.
Call(t) == IF running = t THEN Local ELSE parked

\* A step leaves the call that is not running as it was, and the call that
\* keeps running takes a step of unwrap_mesh as when it runs alone.
IndependentStep ==
    /\ \A t \in {1, 2} : (running # t \/ running' # t) => Call(t)' = Call(t)
    /\ running' = running => (Next /\ parked' = parked)

DiscoveredFrom(k) ==
    LET ef == topo.edge_faces[seams.order[k][2]]
    IN  IF ef[1] = seams.order[k][1] THEN ef[2] ELSE ef[1]

\* C23 (as stated): in detect_seams every face's adjacency list is in
\* ascending order of neighbor face id, and the neighbors discovered from
\* one dequeued face are discovered in ascending order of face id.
C23_NeighborsAscending ==
    AfterSeams =>
        /\ \A f \in Faces :
              LET adj == SeamAdjacency(topo, f, topo.num_edges)
              IN  \A i \in 1..Len(adj) : \A j \in 1..Len(adj) :
                      i < j => adj[i][1] <= adj[j][1]
        /\ \A i \in 1..Len(seams.order) : \A j \in 1..Len(seams.order) :
              (i < j /\ DiscoveredFrom(i) = DiscoveredFrom(j))
                  => seams.order[i][1] < seams.order[j][1]

\* unwrap_mesh is about to call pack_uv_islands on more than one island.
AboutToPack ==
    /\ pc = "lscm" /\ island_id >= num_islands
    /\ params.pack_islands /\ num_islands > 1
    /\ ~Malformed(mesh)

\* The island records pack_uv_islands sorts.
BoxesToPack ==
    LET vi == VertexIsland(mesh, face_island_ids, num_islands, 3 * mesh.num_triangles)
    IN  [i \in 0..num_islands-1 |-> IslandBox(uvs, vi, i, params.island_margin)]

\* C24 (as stated): pack_uv_islands places the islands by height descending
\* and, among islands of equal height, by island id ascending, so the UVs it
\* produces are determined by the island sizes and ids.
C24_TiesBrokenById ==
    AboutToPack =>
        LET orders == PackOrders(mesh, uvs, face_island_ids, num_islands, params.island_margin)
        IN  /\ \A order \in orders : \A a \in 0..num_islands-1 : \A b \in 0..num_islands-1 :
                  (a < b /\ BoxesToPack[order[a]].height = BoxesToPack[order[b]].height)
                      => order[a] < order[b]
            /\ \A o1 \in orders : \A o2 \in orders :
                  pack_uv_islands(mesh, uvs, face_island_ids, num_islands,
                                  params.island_margin, o1)
                    = pack_uv_islands(mesh, uvs, face_island_ids, num_islands,
                                      params.island_margin, o2)

\* Faces of island i, and the lowest of them.
FacesOfIsland(i) == {f \in Faces : face_island_ids[f] = i}
FirstFaceOfIsland(i) == SetMin(FacesOfIsland(i))

\* C25: extract_islands hands out the ids 0, 1, 2, ... in the order of the
\* lowest face of each island: face 0 is in island 0, every id below
\* num_islands is used, and for islands i < j the lowest face of island i is
\* below the lowest face of island j.
C25_IslandIdsFollowFirstFace ==
    AfterIslands =>
        /\ face_island_ids[0] = 0
        /\ \A i \in 0..num_islands-1 : FacesOfIsland(i) # {}
        /\ \A i \in 0..num_islands-1 : \A j \in 0..num_islands-1 :
              i < j => FirstFaceOfIsland(i) < FirstFaceOfIsland(j)

\* Face 1 starts the second flood fill although face 2 belongs to island 0.
C25_Witness ==
    /\ AfterIslands
    /\ mesh.num_triangles = 3
    /\ num_islands = 2
    /\ face_island_ids[1] = 1
    /\ face_island_ids[2] = 0

(***************************************************************************)
(* The pins and the matrix of lscm_parameterize                            *)
(***************************************************************************)

\* The faces and the vertices of the island of the last call of
\* lscm_parameterize that got to STEP 3.
PinnedFaces == {lscm_call.face_indices[k] : k \in DOMAIN lscm_call.face_indices}

PinnedVertices == {mesh.triangles[f][c] : <<f, c>> \in PinnedFaces \X (1..3)}

\* The sides of a face as sets of end points.
SidesOf(f) ==
    LET t == mesh.triangles[f]
    IN  {{t[1], t[2]}, {t[2], t[3]}, {t[3], t[1]}}

\* Boundary vertices: the end points of the edges contained in exactly one
\* face of the island.
BoundaryOfPinned ==
    UNION {e \in UNION {SidesOf(f) : f \in PinnedFaces} :
              Cardinality({f \in PinnedFaces : e \in SidesOf(f)}) = 1}

PinCandidates ==
    IF Cardinality(BoundaryOfPinned) >= 2 THEN BoundaryOfPinned ELSE PinnedVertices

\* C26: lscm_parameterize pins two distinct local vertices of the island; with
\* at least two boundary vertices both pins are boundary vertices and no pair
\* of boundary vertices is farther apart in 3D, otherwise both pins are island
\* vertices and no pair of island vertices is farther apart.
C26_PinsFarthestApart ==
    lscm_call # NoLscm =>
        LET l2g == IslandVertices(mesh, lscm_call.face_indices)
        IN  /\ lscm_call.pin1 # lscm_call.pin2
            /\ {lscm_call.pin1, lscm_call.pin2} \subseteq DOMAIN l2g
            /\ l2g[lscm_call.pin1] = lscm_call.pin1_global
            /\ l2g[lscm_call.pin2] = lscm_call.pin2_global
            /\ {lscm_call.pin1_global, lscm_call.pin2_global} \subseteq PinCandidates
            /\ \A a, b \in PinCandidates :
                  Dist2(mesh, a, b)
                     <= Dist2(mesh, lscm_call.pin1_global, lscm_call.pin2_global)

\* C26 witness: a call pinned two boundary vertices that are not the first
\* two of the boundary array.
C26_Witness ==
    /\ lscm_call # NoLscm
    /\ Cardinality(BoundaryOfPinned) >= 3
    /\ <<lscm_call.pin1_global, lscm_call.pin2_global>>
          # <<lscm_call.boundary[0], lscm_call.boundary[1]>>

\* C27 (as stated): the 2n x 2n matrix assembled from the per-triangle
\* contributions and the pin terms on the diagonal is symmetric, M[i][j] =
\* M[j][i] for all row and column indices i, j.
C27_MatrixSymmetric ==
    lscm_call # NoLscm =>
        LET M == LscmMatrix(lscm_call)
        IN  \A i, j \in 0..2*lscm_call.n-1 : M[i][j] = M[j][i]

(***************************************************************************)
(* Seams and the number of islands                                         *)
(***************************************************************************)

\* C28: when every face is reachable from face 0 through interior edges,
\* unwrap_mesh gets exactly one island from extract_islands, however many
\* seams detect_seams returned.
C28_ConnectedDualGivesOneIsland ==
    (AfterIslands /\ DualClosure({0}, InteriorEdges) = Faces) =>
        /\ num_islands = 1
        /\ \A f \in Faces : face_island_ids[f] = 0

\* C28 witness: a connected mesh of at least three faces with at least two
\* seams came out as one island.
C28_Witness ==
    /\ AfterIslands
    /\ DualClosure({0}, InteriorEdges) = Faces
    /\ mesh.num_triangles >= 3
    /\ seams.num_seams >= 2
    /\ num_islands = 1

(***************************************************************************)
(* Packing moves every vertex once                                         *)
(***************************************************************************)

\* The island of the lowest-index face that contains vertex v, -1 for a
\* vertex no face contains.
OwnerIsland(v) ==
    LET fs == {f \in Faces : v \in TriVerts(f)}
    IN  IF fs = {} THEN -1 ELSE face_island_ids[SetMin(fs)]

\* The function f, tabulated: TLC evaluates a function expression anew at
\* each application until the function has been compared.
Table(f) == IF f = f THEN f ELSE f

Owners == Table([v \in 0..mesh.num_vertices-1 |-> OwnerIsland(v)])

\* The boxes of the islands over the vertices they own.
OwnerBoxes(owners) ==
    Table([i \in 0..num_islands-1 |-> IslandBox(uvs, owners, i, params.island_margin)])

\* The UVs after every vertex with an owner is moved once by the offset of
\* its owner (target minus minimum of the box) and no other vertex is moved.
TranslatedOnce(owners, boxes, target) ==
    [v \in DOMAIN uvs |->
        IF owners[v] = -1 THEN uvs[v]
        ELSE <<uvs[v][1] + target[owners[v]][1] - boxes[owners[v]].min_u,
               uvs[v][2] + target[owners[v]][2] - boxes[owners[v]].min_v>>]

\* The packing step of a call with at least two islands.
PackingStep == pc = "lscm" /\ pc' = "metrics" /\ params.pack_islands /\ num_islands >= 2

\* C29: pack_uv_islands assigns every vertex of a face to the island of the
\* lowest-index face that contains it and translates it exactly once, by
\* the offset of that island; a vertex shared by faces of several islands is
\* not translated twice and a vertex of no face is not translated (the scale
\* of STEP 5 then applies to all).
C29_EveryVertexTranslatedOnce ==
    [][PackingStep =>
          LET owners == Owners
              boxes == OwnerBoxes(owners)
          IN  \E order \in SortedOrders(boxes, num_islands) :
                LET sh == Shelf(boxes, order, num_islands)
                IN  uvs' = ScaleToFit(TranslatedOnce(owners, boxes, sh.target),
                                      sh.max_width, sh.shelf_y + sh.shelf_height)]_vars

\* C29 witness: packing ran on a mesh with a vertex in faces of two islands
\* and a vertex of no face, and some vertex has moved to a target that is not
\* the origin.
C29_Witness ==
    /\ pc = "metrics" /\ params.pack_islands /\ num_islands >= 2
    /\ \E v \in DOMAIN uvs : \E f, g \in Faces :
          /\ v \in TriVerts(f) /\ v \in TriVerts(g)
          /\ face_island_ids[f] # face_island_ids[g]
    /\ \E v \in DOMAIN uvs : OwnerIsland(v) = -1
    /\ \E v \in DOMAIN uvs : OwnerIsland(v) # -1 /\ uvs[v][1] > Unit \div 2

(***************************************************************************)
(* Boundary vertices of an island                                          *)
(***************************************************************************)

\* C30: find_boundary_vertices returns the end points of the edges that
\* exactly one face of the island contains; a seam edge between two faces of
\* the island is not a boundary edge, so for a closed manifold mesh unwrapped
\* as one island the boundary is empty however many seams were detected.
C30_BoundaryByFaceCountOnly ==
    lscm_call # NoLscm =>
        /\ Range(lscm_call.boundary) = BoundaryOfPinned
        /\ (ClosedManifold /\ num_islands = 1) => DOMAIN lscm_call.boundary = {}

\* C30 witness: lscm_parameterize ran on the single island of a closed
\* manifold mesh that has seams between faces of that island.
C30_Witness ==
    /\ lscm_call # NoLscm
    /\ ClosedManifold /\ num_islands = 1
    /\ seams.num_seams >= 3
    /\ \A e \in SeamSet : {topo.edge_faces[e][1], topo.edge_faces[e][2]} \subseteq PinnedFaces
    /\ DOMAIN lscm_call.boundary = {}

=============================================================================
